---- MODULE Spec2Model ----
(***************************************************************************)
(* The animation state machine and playhead engine of bevy_vello           *)
(* (src/animation_controller.rs): the LottiePlayer component, the four     *)
(* chained systems apply_player_inputs -> advance_playheads ->             *)
(* run_transitions -> set_state, and the pure function calculate_playhead. *)
(*                                                                         *)
(* Numbers.  The code computes in f32.  The model computes on an integer   *)
(* grid: every frame quantity is a whole number of grid steps, one grid    *)
(* step stands for one representable step, so `end_frame.prev()` is        *)
(* end_frame - 1, `%` is Rust's truncated remainder and `/` is rounded     *)
(* toward zero onto the grid.                                              *)
(***************************************************************************)
EXTENDS Integers, Sequences, FiniteSets, TLC

VARIABLES
    player,                 \* entity -> its LottiePlayer component
    playback_settings,      \* entity -> its PlaybackSettings component (the active settings)
    handle,                 \* entity -> its Handle<VelloAsset> component
    assets,                 \* Assets<VelloAsset>: asset id -> VelloAsset
    hovered,                \* run_transitions: `hovered: Local<bool>`
    time,                   \* Res<Time>, Res<Input<MouseButton>> and the cursor, as sampled
                            \* for this frame: [dt, inside, just_pressed, elapsed]
    pc,                     \* the system of the chain that runs next
    todo,                   \* the entities the running system has still to visit
    panicked,               \* a system has panicked: the app is gone
    issued,                 \* how many host commands have been issued
    seen_inside,            \* history: entity -> the pointer has been over it since its
                            \* OnMouseLeave rule last fired
    autoplays,              \* history: entity -> autoplay has set `playing` for it
    calc_rendered_frames,   \* calculate_playhead: argument rendered_frames
    calc_composition,       \* calculate_playhead: argument composition
    calc_settings,          \* calculate_playhead: argument playback_settings
    calc_playhead           \* calculate_playhead: the value returned

world_vars == <<player, playback_settings, handle, assets, hovered, time, pc, todo,
                panicked, issued, seen_inside, autoplays>>

calc_vars == <<calc_rendered_frames, calc_composition, calc_settings, calc_playhead>>

vars == <<player, playback_settings, handle, assets, hovered, time, pc, todo,
          panicked, issued, seen_inside, autoplays,
          calc_rendered_frames, calc_composition, calc_settings, calc_playhead>>

----------------------------------------------------------------------------
(* Bounds of the model. *)

\* The accumulator is explored up to this many frames.
MaxRendered == 12
\* Intermissions are explored up to this many frames.
MaxIntermission == 2
\* The host issues at most this many commands in one run.
MaxCommands == 1
\* The frames run while no accumulator has passed this many frames.
MaxAccumulated == 5

----------------------------------------------------------------------------
(* f32 arithmetic on the grid. *)

Min(a, b) == IF a <= b THEN a ELSE b

Max(a, b) == IF a >= b THEN a ELSE b

\* Rust's `%` on floats: the remainder has the sign of the dividend.
Rem(a, b) == IF a >= 0 THEN a % b ELSE -((-a) % b)

\* Ulps::prev: the next representable value below x.
Prev(x) == x - 1

\* PlaybackSettings::default().segments is f32::MIN..f32::MAX.
F32Min == -1000

F32Max == 1000

----------------------------------------------------------------------------
(* PlaybackSettings and the values it is built from. *)

Normal == "Normal"

Reverse == "Reverse"

LoopNone == [kind |-> "None", loops |-> 0]

LoopAmount(n) == [kind |-> "Amount", loops |-> n]

LoopLoop == [kind |-> "Loop", loops |-> 0]

DefaultSegments == [start |-> F32Min, end |-> F32Max]

\* PlaybackSettings::default(): the fixed default installed for a state
\* that has no settings override.
DefaultSettings ==
    [ autoplay     |-> TRUE,
      direction    |-> Normal,
      speed        |-> 1,
      looping      |-> LoopLoop,
      play_mode    |-> "Normal",
      segments     |-> DefaultSegments,
      intermission |-> 0 ]

----------------------------------------------------------------------------
(* calculate_playhead *)

start_frame(composition, settings) ==
    Max(settings.segments.start, composition.frames.start)

end_frame(composition, settings) ==
    Min(settings.segments.end, composition.frames.end)

\* `length` of calculate_playhead: the usable length plus the intermission.
loop_length(composition, settings) ==
    end_frame(composition, settings)
        - start_frame(composition, settings)
        + settings.intermission

\* A plausible slip: an infinite loop that holds at the end instead of wrapping.
fold_frame_NoWrap(rendered_frames, looping, length) ==
    IF looping.kind = "Amount"
    THEN Rem(Min(rendered_frames, looping.loops * length), length)
    ELSE Min(rendered_frames, length)

\* A plausible slip: looping None extrapolates instead of holding.
fold_frame_NoHold(rendered_frames, looping, length) ==
    CASE looping.kind = "None"   -> rendered_frames
      [] looping.kind = "Amount" -> Rem(Min(rendered_frames, looping.loops * length), length)
      [] looping.kind = "Loop"   -> Rem(rendered_frames, length)

\* `frame`: rendered_frames folded into one loop according to the loop policy.
fold_frame(rendered_frames, looping, length) ==
    CASE looping.kind = "None"   -> Min(rendered_frames, length)
      [] looping.kind = "Amount" -> Rem(Min(rendered_frames, looping.loops * length), length)
      [] looping.kind = "Loop"   -> Rem(rendered_frames, length)

calculate_playhead(rendered_frames, composition, settings) ==
    LET start  == start_frame(composition, settings)
        end    == end_frame(composition, settings)
        length == loop_length(composition, settings)
        frame  == fold_frame(rendered_frames, settings.looping, length)
    IN  IF settings.direction = Normal
        THEN Min(start + frame, Prev(end))
        ELSE Min(end - frame, Prev(end))

----------------------------------------------------------------------------
(* Option<T>: None is the empty sequence, Some(v) the sequence of v. *)

None == <<>>

Some(v) == <<v>>

is_some(o) == o /= <<>>

unwrap(o) == o[1]

----------------------------------------------------------------------------
(* AnimationState, AnimationTransition and LottiePlayer. *)

OnAfter(state, secs) == [kind |-> "OnAfter", state |-> state, secs |-> secs]

OnComplete(state) == [kind |-> "OnComplete", state |-> state, secs |-> 0]

OnMouseEnter(state) == [kind |-> "OnMouseEnter", state |-> state, secs |-> 0]

OnMouseClick(state) == [kind |-> "OnMouseClick", state |-> state, secs |-> 0]

OnMouseLeave(state) == [kind |-> "OnMouseLeave", state |-> state, secs |-> 0]

OnShow(state) == [kind |-> "OnShow", state |-> state, secs |-> 0]

\* AnimationState::new(id) followed by the builder calls with_asset,
\* with_playback_settings (settings = Some(..)), with_transition (in order),
\* reset_playhead_on_transition and reset_playhead_on_start.
AnimationState(id, asset, settings, transitions, on_transition, on_start) ==
    [ id                           |-> id,
      asset                        |-> asset,
      playback_settings            |-> settings,
      transitions                  |-> transitions,
      reset_playhead_on_transition |-> on_transition,
      reset_playhead_on_start      |-> on_start ]

\* LottiePlayer::new
new(initial_state) ==
    [ initial_state         |-> initial_state,
      current_state         |-> initial_state,
      next_state            |-> Some(initial_state),
      pending_seek_frame    |-> None,
      pending_direction     |-> None,
      pending_intermission  |-> None,
      pending_loop_behavior |-> None,
      pending_play_mode     |-> None,
      pending_speed         |-> None,
      states                |-> <<>>,
      started               |-> FALSE,
      playing               |-> FALSE,
      stopped               |-> FALSE ]

\* LottiePlayer::with_state: HashMap::insert, a later state of the same id
\* replaces the earlier one.
with_state(self, state) ==
    [self EXCEPT !.states =
        [id \in (DOMAIN self.states) \cup {state.id} |->
            IF id = state.id THEN state ELSE self.states[id]]]

\* HashMap::get(id).is_some()
registered(self, id) == id \in DOMAIN self.states

----------------------------------------------------------------------------
(* The scene the systems run on: two entities, each with a LottiePlayer, a  *)
(* PlaybackSettings and a Handle<VelloAsset>, and the assets they refer to. *)

Players == {"x", "y"}

\* Vector::Lottie { composition, first_frame, rendered_frames } of a freshly
\* loaded asset.  first_frame is kept as None / Some(()) : the Instant itself
\* is read only through `elapsed()`, which the frame's `time.elapsed` gives.
Lottie(start, end, frame_rate) ==
    [ kind            |-> "Lottie",
      composition     |-> [frames |-> [start |-> start, end |-> end],
                           frame_rate |-> frame_rate],
      first_frame     |-> None,
      rendered_frames |-> 0 ]

\* Vector::Svg { original, first_frame } of a freshly loaded asset.
Svg == [kind |-> "Svg", first_frame |-> None]

InitialAssets == [a \in {"a1", "a2"} |-> IF a = "a1" THEN Lottie(0, 4, 1) ELSE Svg]

HoverSettings ==
    [DefaultSettings EXCEPT !.direction = Reverse]

ClickSettings ==
    [DefaultSettings EXCEPT !.looping = LoopNone, !.intermission = 1]

\* A button: idle -> hover while the pointer is over it, hover -> click on a
\* press (in idle the press rule is shadowed by the enter rule before it).
PlayerX ==
    with_state(with_state(with_state(new("idle"),
        AnimationState("idle", "a1", None,
                       <<OnMouseEnter("hover"), OnMouseClick("click")>>, FALSE, FALSE)),
        AnimationState("hover", "a1", Some(HoverSettings),
                       <<OnMouseLeave("idle"), OnMouseClick("click")>>, FALSE, FALSE)),
        AnimationState("click", "a1", Some(ClickSettings),
                       <<OnComplete("idle")>>, FALSE, FALSE))

\* A second object, which reacts to the pointer leaving it.
PlayerY ==
    with_state(with_state(new("on"),
        AnimationState("on", "a2", None, <<OnMouseLeave("off")>>, FALSE, FALSE)),
        AnimationState("off", "a2", Some(HoverSettings),
                       <<OnMouseEnter("on")>>, FALSE, TRUE))

\* The input of a frame that has not sampled anything yet.
NoInput == [dt |-> 0, inside |-> {}, just_pressed |-> FALSE, elapsed |-> FALSE]

Init ==
    /\ player = [p \in Players |-> IF p = "x" THEN PlayerX ELSE PlayerY]
    /\ playback_settings = [p \in Players |-> DefaultSettings]
    /\ handle = [p \in Players |-> player[p].states[player[p].initial_state].asset]
    /\ assets = InitialAssets
    /\ hovered = FALSE
    /\ time = NoInput
    /\ pc = "host"
    /\ todo = Players
    /\ panicked = FALSE
    /\ issued = 0
    /\ seen_inside = [p \in Players |-> FALSE]
    /\ autoplays = [p \in Players |-> FALSE]
    /\ calc_rendered_frames = 0
    /\ calc_composition = InitialAssets["a1"].composition
    /\ calc_settings = DefaultSettings
    /\ calc_playhead = 0

----------------------------------------------------------------------------
(* The host command API of LottiePlayer.  The host's systems run between   *)
(* two passes of the chain.                                                *)

transition(self, state) == [self EXCEPT !.next_state = Some(state)]

reset(self) == [self EXCEPT !.next_state = Some(self.initial_state)]

seek(self, frame) == [self EXCEPT !.pending_seek_frame = Some(frame)]

set_direction(self, direction) == [self EXCEPT !.pending_direction = Some(direction)]

set_intermission(self, intermission) ==
    [self EXCEPT !.pending_intermission = Some(intermission)]

set_loop_behavior(self, loop_behavior) ==
    [self EXCEPT !.pending_loop_behavior = Some(loop_behavior)]

set_play_mode(self, mode) == [self EXCEPT !.pending_play_mode = Some(mode)]

set_speed(self, speed) == [self EXCEPT !.pending_speed = Some(speed)]

play(self) == [self EXCEPT !.playing = TRUE, !.stopped = FALSE]

pause(self) == [self EXCEPT !.playing = FALSE]

stop(self) == [self EXCEPT !.stopped = TRUE]

toggle_play(self) == IF self.stopped \/ ~self.playing THEN play(self) ELSE pause(self)

\* The entity whose player the host's systems drive; the other one is left
\* to its transition rules.
Scripted == {"x"}

\* The values the host passes.
SeekFrames == {2, 5}

Speeds == {2}

Intermissions == {1}

LoopBehaviors == {LoopNone}

PlayModes == {"Bounce"}

\* One call of the host on the player of entity p.
Host(p, after) ==
    /\ pc = "host"
    /\ ~panicked
    /\ issued < MaxCommands
    /\ issued' = issued + 1
    /\ player' = [player EXCEPT ![p] = after]
    /\ UNCHANGED <<playback_settings, handle, assets, hovered, time, pc, todo, panicked>>
    /\ UNCHANGED <<calc_vars, seen_inside, autoplays>>

HostTransition == \E p \in Scripted : \E s \in DOMAIN player[p].states :
                      Host(p, transition(player[p], s))

HostReset == \E p \in Scripted : Host(p, reset(player[p]))

HostSeek == \E p \in Scripted : \E f \in SeekFrames : Host(p, seek(player[p], f))

HostSetDirection == \E p \in Scripted : \E d \in {Normal, Reverse} :
                        Host(p, set_direction(player[p], d))

HostSetIntermission == \E p \in Scripted : \E i \in Intermissions :
                           Host(p, set_intermission(player[p], i))

HostSetLoopBehavior == \E p \in Scripted : \E l \in LoopBehaviors :
                           Host(p, set_loop_behavior(player[p], l))

HostSetPlayMode == \E p \in Scripted : \E m \in PlayModes :
                       Host(p, set_play_mode(player[p], m))

HostSetSpeed == \E p \in Scripted : \E v \in Speeds : Host(p, set_speed(player[p], v))

HostPlay == \E p \in Scripted : Host(p, play(player[p]))

HostPause == \E p \in Scripted : Host(p, pause(player[p]))

HostStop == \E p \in Scripted : Host(p, stop(player[p]))

HostTogglePlay == \E p \in Scripted : Host(p, toggle_play(player[p]))

----------------------------------------------------------------------------
(* The frame.  Bevy updates Time, Input and the cursor before the Update    *)
(* schedule runs; the chain then runs its four systems in order, and each   *)
(* system visits the entities of its query one after the other, in an order *)
(* the query does not promise.                                              *)

\* What a frame may sample.  The two objects do not overlap, a press counts
\* only over an object, and the clock of OnAfter is read only by a state that
\* has an OnAfter rule.
HasOnAfter ==
    \E p \in Players :
        /\ registered(player[p], player[p].current_state)
        /\ \E i \in DOMAIN player[p].states[player[p].current_state].transitions :
               player[p].states[player[p].current_state].transitions[i].kind = "OnAfter"

pre_update ==
    /\ pc = "host"
    /\ ~panicked
    /\ \E dt \in {0, 1}, inside \in {{}} \cup {{p} : p \in Players}, pressed \in BOOLEAN, elapsed \in BOOLEAN :
        /\ pressed => inside /= {}
        /\ elapsed => HasOnAfter
        /\ time' = [dt |-> dt, inside |-> inside, just_pressed |-> pressed,
                    elapsed |-> elapsed]
    /\ pc' = "apply_player_inputs"
    /\ UNCHANGED <<player, playback_settings, handle, assets, hovered, todo, panicked, issued>>
    /\ UNCHANGED <<calc_vars, seen_inside, autoplays>>

\* One iteration of the `for` loop of system `sys` is taken for entity p;
\* after the last entity the chain moves on to `then`.
Visit(sys, p, then) ==
    /\ pc = sys
    /\ ~panicked
    /\ p \in todo
    /\ todo' = IF todo = {p} THEN Players ELSE todo \ {p}
    /\ pc' = IF todo = {p} THEN then ELSE sys

----------------------------------------------------------------------------
(* systems::apply_player_inputs *)

\* A plausible slip: the value reaches the overrides of the states but not
\* the active settings.
fan_out_OverridesOnly(w, field, pending) ==
    IF is_some(pending)
    THEN [ states |-> [id \in DOMAIN w.states |->
                IF is_some(w.states[id].playback_settings)
                THEN [w.states[id] EXCEPT !.playback_settings =
                        Some([unwrap(w.states[id].playback_settings)
                                EXCEPT ![field] = unwrap(pending)])]
                ELSE w.states[id]],
           active |-> w.active ]
    ELSE w

\* `for playback_settings in player.states.values_mut()
\*      .flat_map(|s| s.playback_settings.as_mut()).chain([playback_settings.as_mut()])
\*  { playback_settings.<field> = value; }` when the pending slot is Some.
\* w = [states, active].
fan_out(w, field, pending) ==
    IF is_some(pending)
    THEN [ states |-> [id \in DOMAIN w.states |->
                IF is_some(w.states[id].playback_settings)
                THEN [w.states[id] EXCEPT !.playback_settings =
                        Some([unwrap(w.states[id].playback_settings)
                                EXCEPT ![field] = unwrap(pending)])]
                ELSE w.states[id]],
           active |-> [w.active EXCEPT ![field] = unwrap(pending)] ]
    ELSE w

\* `a / b * c` of floats, put on the grid (rounded toward zero).
MulDiv(a, c, b) ==
    IF a * c >= 0 THEN (a * c) \div b ELSE -((-(a * c)) \div b)

\* The accumulator after a pending intermission was taken into account.
rendered_after_intermission(rendered_frames, composition, settings, pending) ==
    IF is_some(pending)
    THEN LET dt_intermission == unwrap(pending) - settings.intermission
             \* loops_played * dt_intermission
             dt_frames == MulDiv(rendered_frames, dt_intermission,
                                 composition.frames.end - composition.frames.start
                                    + settings.intermission)
         IN  Min(rendered_frames + dt_frames, 0)
    ELSE rendered_frames

\* A plausible slip: the seek frame is added without taking the local frame out.
rendered_after_seek_Added(rendered_frames, composition, settings, pending) ==
    IF is_some(pending)
    THEN rendered_frames
            + Rem(unwrap(pending), composition.frames.end - composition.frames.start)
    ELSE rendered_frames

\* A plausible slip: the local frame is taken over the frame range alone,
\* without the intermission.
rendered_after_seek_NoTail(rendered_frames, composition, settings, pending) ==
    IF is_some(pending)
    THEN LET local_frame ==
                Rem(rendered_frames, composition.frames.end - composition.frames.start)
             local_seek_frame ==
                Rem(unwrap(pending), composition.frames.end - composition.frames.start)
         IN  rendered_frames - local_frame + local_seek_frame
    ELSE rendered_frames

\* The accumulator after a pending seek was taken into account.
rendered_after_seek(rendered_frames, composition, settings, pending) ==
    IF is_some(pending)
    THEN LET local_frame ==
                Rem(rendered_frames,
                    composition.frames.end - composition.frames.start
                        + settings.intermission)
             local_seek_frame ==
                Rem(unwrap(pending), composition.frames.end - composition.frames.start)
         IN  rendered_frames - local_frame + local_seek_frame
    ELSE rendered_frames

\* The body of the loop for one entity: what it leaves in the player, in the
\* active settings and in the asset's accumulator.  No pending slot is
\* written: the code reads the slots (`if let Some(..) = player.pending_..`)
\* and never takes them.
apply_player_inputs_of(self, settings, asset) ==
    IF asset.kind /= "Lottie"
    THEN [player |-> self, settings |-> settings, rendered_frames |-> 0]
    ELSE
    LET w0 == [states |-> self.states, active |-> settings]
        w1 == fan_out(w0, "direction", self.pending_direction)
        r1 == rendered_after_intermission(asset.rendered_frames, asset.composition,
                                          w1.active, self.pending_intermission)
        w2 == fan_out(w1, "intermission", self.pending_intermission)
        w3 == fan_out(w2, "looping", self.pending_loop_behavior)
        w4 == fan_out(w3, "play_mode", self.pending_play_mode)
        r2 == rendered_after_seek(r1, asset.composition, w4.active,
                                  self.pending_seek_frame)
        w5 == fan_out(w4, "speed", self.pending_speed)
    IN  [ player |-> [self EXCEPT !.states = w5.states],
          settings |-> w5.active,
          rendered_frames |-> r2 ]

apply_player_inputs(p) ==
    /\ Visit("apply_player_inputs", p, "advance_playheads")
    /\ LET out == apply_player_inputs_of(player[p], playback_settings[p], assets[handle[p]])
       IN  /\ player' = [player EXCEPT ![p] = out.player]
           /\ playback_settings' = [playback_settings EXCEPT ![p] = out.settings]
           /\ assets' = IF assets[handle[p]].kind = "Lottie"
                        THEN [assets EXCEPT ![handle[p]].rendered_frames = out.rendered_frames]
                        ELSE assets
    /\ UNCHANGED <<handle, hovered, time, panicked, issued>>
    /\ UNCHANGED <<calc_vars, seen_inside, autoplays>>

----------------------------------------------------------------------------
(* systems::advance_playheads *)

\* A plausible slip: autoplay is not held back by `started`.
autoplayed_Always(self, settings) ==
    IF settings.autoplay THEN [self EXCEPT !.playing = TRUE] ELSE self

\* `if playback_settings.autoplay && !player.started { player.playing = true; }`
autoplayed(self, settings) ==
    IF settings.autoplay /\ ~self.started THEN [self EXCEPT !.playing = TRUE] ELSE self

\* `dt * playback_settings.speed * composition.frame_rate`
elapsed_frames(dt, settings, composition) == dt * settings.speed * composition.frame_rate

advance_playheads(p) ==
    /\ Visit("advance_playheads", p, "run_transitions")
    /\ IF player[p].stopped
       THEN UNCHANGED <<player, assets>>
       ELSE LET self  == autoplayed(player[p], playback_settings[p])
                asset == assets[handle[p]]
            IN  IF ~self.playing \/ asset.kind /= "Lottie"
                THEN /\ player' = [player EXCEPT ![p] = self]
                     /\ UNCHANGED assets
                ELSE LET by == elapsed_frames(time.dt, playback_settings[p], asset.composition)
                     IN  /\ asset.rendered_frames + by <= MaxAccumulated
                         /\ player' = [player EXCEPT ![p] =
                                IF is_some(asset.first_frame)
                                THEN self
                                ELSE [self EXCEPT !.started = TRUE]]
                         /\ assets' = [assets EXCEPT ![handle[p]] =
                                [asset EXCEPT !.first_frame = Some("now"),
                                              !.rendered_frames = @ + by]]
    /\ autoplays' = [autoplays EXCEPT ![p] =
            @ \/ (~player[p].stopped /\ playback_settings[p].autoplay /\ ~player[p].started)]
    /\ UNCHANGED <<playback_settings, handle, hovered, time, panicked, issued>>
    /\ UNCHANGED <<calc_vars, seen_inside>>

----------------------------------------------------------------------------
(* systems::run_transitions *)

\* A plausible slip: OnShow tests the marker for being unset.
satisfied_ShowUnset(rule, c, hov) ==
    CASE rule.kind = "OnAfter" ->
            is_some(c.asset.first_frame) /\ c.elapsed
      [] rule.kind = "OnComplete" ->
            /\ c.asset.kind = "Lottie"
            /\ c.asset.rendered_frames >=
                    c.asset.composition.frames.end - c.asset.composition.frames.start
                        + c.settings.intermission
      [] rule.kind = "OnMouseEnter" -> c.is_inside
      [] rule.kind = "OnMouseClick" -> c.is_inside /\ c.just_pressed
      [] rule.kind = "OnMouseLeave" -> hov /\ ~c.is_inside
      [] rule.kind = "OnShow" -> ~is_some(c.asset.first_frame)

\* What one pass of the loop reads: c = [is_inside, just_pressed, elapsed,
\* asset, settings].  Whether the rule's `if` is taken.
satisfied(rule, c, hov) ==
    CASE rule.kind = "OnAfter" ->
            is_some(c.asset.first_frame) /\ c.elapsed
      [] rule.kind = "OnComplete" ->
            /\ c.asset.kind = "Lottie"
            /\ c.asset.rendered_frames >=
                    c.asset.composition.frames.end - c.asset.composition.frames.start
                        + c.settings.intermission
      [] rule.kind = "OnMouseEnter" -> c.is_inside
      [] rule.kind = "OnMouseClick" -> c.is_inside /\ c.just_pressed
      [] rule.kind = "OnMouseLeave" -> hov /\ ~c.is_inside
      [] rule.kind = "OnShow" -> is_some(c.asset.first_frame)

RECURSIVE scan_LastWins(_, _, _, _)

\* A plausible slip: the `break` is missing, so the last satisfied rule wins.
scan_LastWins(i, transitions, c, acc) ==
    IF i > Len(transitions)
    THEN acc
    ELSE LET t == transitions[i]
         IN  IF satisfied(t, c, acc.hovered)
             THEN scan_LastWins(i + 1, transitions, c,
                    [ next_state |-> Some(t.state),
                      hovered |-> IF t.kind = "OnMouseLeave" THEN FALSE ELSE acc.hovered ])
             ELSE scan_LastWins(i + 1, transitions, c,
                    [acc EXCEPT !.hovered =
                        IF t.kind = "OnMouseLeave" /\ c.is_inside THEN TRUE ELSE @])

RECURSIVE scan(_, _, _, _)

\* `for transition in controller.state().transitions.iter()` from rule i on;
\* acc = [next_state, hovered] as the earlier rules left them.
scan(i, transitions, c, acc) ==
    IF i > Len(transitions)
    THEN acc
    ELSE LET t == transitions[i]
         IN  IF satisfied(t, c, acc.hovered)
             THEN \* controller.next_state = Some(state); break
                  [ next_state |-> Some(t.state),
                    hovered |-> IF t.kind = "OnMouseLeave" THEN FALSE ELSE acc.hovered ]
             ELSE scan(i + 1, transitions, c,
                    [acc EXCEPT !.hovered =
                        IF t.kind = "OnMouseLeave" /\ c.is_inside THEN TRUE ELSE @])

\* What the pass for entity p reads.
scan_input(p) ==
    [ is_inside    |-> p \in time.inside,
      just_pressed |-> time.just_pressed,
      elapsed      |-> time.elapsed,
      asset        |-> assets[handle[p]],
      settings     |-> playback_settings[p] ]

run_transitions(p) ==
    /\ Visit("run_transitions", p, "set_state")
    /\ IF player[p].stopped
       THEN /\ seen_inside' = [seen_inside EXCEPT ![p] = @ \/ p \in time.inside]
            /\ UNCHANGED <<player, hovered, panicked>>
       ELSE IF ~registered(player[p], player[p].current_state)
       THEN \* controller.state() panics
            /\ panicked' = TRUE
            /\ UNCHANGED <<player, hovered, seen_inside>>
       ELSE LET out == scan(1, player[p].states[player[p].current_state].transitions,
                            scan_input(p),
                            [next_state |-> player[p].next_state, hovered |-> hovered])
            IN  /\ player' = [player EXCEPT ![p].next_state = out.next_state]
                /\ hovered' = out.hovered
                /\ seen_inside' = [seen_inside EXCEPT ![p] =
                        IF hovered /\ ~out.hovered THEN FALSE ELSE @ \/ p \in time.inside]
                /\ UNCHANGED panicked
    /\ UNCHANGED <<playback_settings, handle, assets, time, issued>>
    /\ UNCHANGED <<calc_vars, autoplays>>

----------------------------------------------------------------------------
(* systems::set_state *)

\* A plausible slip: the override of the target is not installed.
settings_of_NoOverride(state) == DefaultSettings

\* `target_state.playback_settings.clone().unwrap_or_default()`
settings_of(state) ==
    IF is_some(state.playback_settings) THEN unwrap(state.playback_settings)
    ELSE DefaultSettings

\* `target_state.playback_settings.as_ref().map(|pb| pb.direction)
\*      .unwrap_or(AnimationDirection::Normal)`
target_direction(state) ==
    IF is_some(state.playback_settings) THEN unwrap(state.playback_settings).direction
    ELSE Normal

\* A plausible slip: the hard reset asks for both flags.
rendered_after_commit_BothFlags(rendered_frames, composition, settings, current, target) ==
    IF current.reset_playhead_on_transition /\ target.reset_playhead_on_start
    THEN 0
    ELSE LET playhead == calculate_playhead(rendered_frames, composition, settings)
         IN  CASE settings.direction = Normal /\ target_direction(target) = Reverse ->
                    composition.frames.end - playhead
               [] settings.direction = Reverse /\ target_direction(target) = Normal ->
                    playhead
               [] OTHER ->
                    Rem(rendered_frames,
                        composition.frames.end - composition.frames.start)

\* The accumulator a commit leaves: `current` is the state being left,
\* `target` the state entered, `settings` the active settings on exit.
rendered_after_commit(rendered_frames, composition, settings, current, target) ==
    IF current.reset_playhead_on_transition \/ target.reset_playhead_on_start
    THEN 0
    ELSE LET playhead == calculate_playhead(rendered_frames, composition, settings)
         IN  CASE settings.direction = Normal /\ target_direction(target) = Reverse ->
                    composition.frames.end - playhead
               [] settings.direction = Reverse /\ target_direction(target) = Normal ->
                    playhead
               [] OTHER ->
                    Rem(rendered_frames,
                        composition.frames.end - composition.frames.start)

\* The asset the commit works on: the target's when it differs from the
\* asset of the state being left, else the one the entity already shows.
handle_after_commit(cur_handle, current, target) ==
    IF current.asset /= target.asset THEN target.asset ELSE cur_handle

set_state(p) ==
    /\ Visit("set_state", p, "host")
    /\ time' = IF todo = {p} THEN NoInput ELSE time
    /\ IF ~is_some(player[p].next_state)
       THEN UNCHANGED <<player, playback_settings, handle, assets, panicked>>
       ELSE
       LET next_state == unwrap(player[p].next_state)
           taken == [player[p] EXCEPT !.next_state = None,
                                      !.started = FALSE, !.playing = FALSE]
       IN  IF ~registered(taken, next_state) \/ ~registered(taken, taken.current_state)
           THEN \* `panic!("state not found: ..")`
                /\ panicked' = TRUE
                /\ player' = [player EXCEPT ![p] = taken]
                /\ UNCHANGED <<playback_settings, handle, assets>>
           ELSE
           LET target  == taken.states[next_state]
               current == taken.states[taken.current_state]
               h       == handle_after_commit(handle[p], current, target)
               asset   == assets[h]
           IN  /\ handle' = [handle EXCEPT ![p] = h]
               /\ assets' = [assets EXCEPT ![h] =
                    IF asset.kind = "Lottie"
                    THEN [asset EXCEPT
                            !.first_frame = None,
                            !.rendered_frames =
                                rendered_after_commit(asset.rendered_frames,
                                    asset.composition, playback_settings[p],
                                    current, target)]
                    ELSE [asset EXCEPT !.first_frame = None]]
               /\ playback_settings' = [playback_settings EXCEPT ![p] = settings_of(target)]
               /\ player' = [player EXCEPT ![p] = [taken EXCEPT !.current_state = next_state]]
               /\ UNCHANGED panicked
    /\ UNCHANGED <<hovered, issued>>
    /\ UNCHANGED <<calc_vars, seen_inside, autoplays>>

----------------------------------------------------------------------------
(* The specification: the host's calls and the frames of the app. *)

Next ==
    \/ HostTransition
    \/ HostReset
    \/ HostSeek
    \/ HostSetDirection
    \/ HostSetIntermission
    \/ HostSetLoopBehavior
    \/ HostSetPlayMode
    \/ HostSetSpeed
    \/ HostPlay
    \/ HostPause
    \/ HostStop
    \/ HostTogglePlay
    \/ pre_update
    \/ \E p \in Players : apply_player_inputs(p)
    \/ \E p \in Players : advance_playheads(p)
    \/ \E p \in Players : run_transitions(p)
    \/ \E p \in Players : set_state(p)

Spec == Init /\ [][Next]_vars

----------------------------------------------------------------------------
(* A second scene: two entities that show the same animation, one of them   *)
(* with a rule whose target was never registered, or built without its      *)
(* initial state.                                                           *)

CutSettings ==
    [DefaultSettings EXCEPT !.looping = LoopNone, !.segments = [start |-> 1, end |-> 3]]

\* Two animations of the same frame range.
GalleryAssets == [a \in {"a1", "a3"} |-> Lottie(0, 4, 1)]

\* Plays the whole animation; a press plays the segment [1,3) once; the host
\* may switch to the second animation, played backwards.
PlayerU ==
    with_state(with_state(with_state(new("loop"),
        AnimationState("loop", "a1", None, <<OnMouseClick("cut")>>, FALSE, FALSE)),
        AnimationState("cut", "a1", Some(CutSettings), <<OnComplete("loop")>>, FALSE, FALSE)),
        AnimationState("alt", "a3", Some(HoverSettings), <<>>, FALSE, FALSE))

\* Its rule names a state that no with_state call registered.
PlayerV ==
    with_state(new("on"),
        AnimationState("on", "a1", None, <<OnMouseClick("gone")>>, FALSE, FALSE))

\* LottiePlayer::new("ghost") followed by with_state of another id only.
PlayerBare ==
    with_state(new("ghost"),
        AnimationState("on", "a1", None, <<OnMouseClick("gone")>>, FALSE, FALSE))

InitGallery ==
    /\ player \in { [p \in Players |-> IF p = "x" THEN PlayerU ELSE v] :
                        v \in {PlayerV, PlayerBare} }
    /\ playback_settings = [p \in Players |-> DefaultSettings]
    /\ handle = [p \in Players |-> "a1"]
    /\ assets = GalleryAssets
    /\ hovered = FALSE
    /\ time = NoInput
    /\ pc = "host"
    /\ todo = Players
    /\ panicked = FALSE
    /\ issued = 0
    /\ seen_inside = [p \in Players |-> FALSE]
    /\ autoplays = [p \in Players |-> FALSE]
    /\ calc_rendered_frames = 0
    /\ calc_composition = InitialAssets["a1"].composition
    /\ calc_settings = DefaultSettings
    /\ calc_playhead = 0

SpecGallery == InitGallery /\ [][Next]_vars

----------------------------------------------------------------------------
(* A third scene: one entity whose states carry the reset flags and an      *)
(* OnShow rule, next to a still picture.                                    *)

\* Waits for play() before it starts.
IntroSettings ==
    [DefaultSettings EXCEPT !.autoplay = FALSE]

\* Plays the animation; a press plays it backwards, in a state that resets
\* the playhead when it is left; a press during that shows an intro that
\* starts from frame 0 and moves on as soon as it is shown.
PlayerS ==
    with_state(with_state(with_state(new("loop"),
        AnimationState("loop", "a1", None, <<OnMouseClick("alt")>>, FALSE, FALSE)),
        AnimationState("alt", "a1", Some(HoverSettings),
                       <<OnMouseLeave("loop"), OnMouseClick("intro")>>, TRUE, FALSE)),
        AnimationState("intro", "a1", Some(IntroSettings),
                       <<OnShow("loop")>>, FALSE, TRUE))

\* A picture without rules.
PlayerW ==
    with_state(new("still"),
        AnimationState("still", "a2", None, <<>>, FALSE, FALSE))

InitStage ==
    /\ player = [p \in Players |-> IF p = "x" THEN PlayerS ELSE PlayerW]
    /\ playback_settings = [p \in Players |-> DefaultSettings]
    /\ handle = [p \in Players |-> player[p].states[player[p].initial_state].asset]
    /\ assets = InitialAssets
    /\ hovered = FALSE
    /\ time = NoInput
    /\ pc = "host"
    /\ todo = Players
    /\ panicked = FALSE
    /\ issued = 0
    /\ seen_inside = [p \in Players |-> FALSE]
    /\ autoplays = [p \in Players |-> FALSE]
    /\ calc_rendered_frames = 0
    /\ calc_composition = InitialAssets["a1"].composition
    /\ calc_settings = DefaultSettings
    /\ calc_playhead = 0

SpecStage == InitStage /\ [][Next]_vars

----------------------------------------------------------------------------
(* The playhead calculator on its own: the arguments are drawn from bounded *)
(* sets and the accumulator is moved as the advance phase moves it.         *)

CalcCompositions ==
    { [frames |-> [start |-> 0, end |-> 4], frame_rate |-> 1],
      [frames |-> [start |-> 1, end |-> 4], frame_rate |-> 1] }

CalcSegments == { DefaultSegments, [start |-> 1, end |-> 3], [start |-> 0, end |-> 6] }

CalcLoopings == { LoopNone, LoopAmount(1), LoopAmount(2), LoopLoop }

CalcSettings ==
    { [DefaultSettings EXCEPT !.direction = d, !.looping = l,
                              !.segments = s, !.intermission = i] :
        d \in {Normal, Reverse}, l \in CalcLoopings,
        s \in CalcSegments, i \in 0..MaxIntermission }

CalcInit ==
    /\ calc_rendered_frames = 0
    /\ calc_composition \in CalcCompositions
    /\ calc_settings \in CalcSettings
    /\ calc_playhead = calculate_playhead(calc_rendered_frames, calc_composition, calc_settings)
    /\ player = [p \in Players |-> IF p = "x" THEN PlayerX ELSE PlayerY]
    /\ playback_settings = [p \in Players |-> DefaultSettings]
    /\ handle = [p \in Players |-> player[p].states[player[p].initial_state].asset]
    /\ assets = InitialAssets
    /\ hovered = FALSE
    /\ time = NoInput
    /\ pc = "host"
    /\ todo = Players
    /\ panicked = FALSE
    /\ issued = 0
    /\ seen_inside = [p \in Players |-> FALSE]
    /\ autoplays = [p \in Players |-> FALSE]

\* The accumulator moves on by `by` frames and the playhead is computed again.
CalcMove(by) ==
    /\ calc_rendered_frames + by <= MaxRendered
    /\ calc_rendered_frames' = calc_rendered_frames + by
    /\ calc_playhead' = calculate_playhead(calc_rendered_frames', calc_composition, calc_settings)
    /\ UNCHANGED <<calc_composition, calc_settings>>
    /\ UNCHANGED world_vars

\* elapsed_frames of one tick.
CalcAdvance == \E by \in 1..2 : CalcMove(by)

\* One whole loop (usable length plus intermission) elapses.
CalcWrap == CalcMove(loop_length(calc_composition, calc_settings))

CalcNext == CalcAdvance \/ CalcWrap

SpecCalc == CalcInit /\ [][CalcNext]_vars

----------------------------------------------------------------------------
(* Claims about calculate_playhead, checked under SpecCalc. *)

CalcStart == start_frame(calc_composition, calc_settings)

CalcEnd == end_frame(calc_composition, calc_settings)

CalcLength == loop_length(calc_composition, calc_settings)

\* C1: for every rendered_frames >= 0, loop policy, intermission and
\* direction the playhead lies in the usable range, start <= playhead < end.
C1_PlayheadInRange ==
    /\ CalcStart <= calc_playhead
    /\ calc_playhead < CalcEnd

\* C4: under infinite looping the playhead at rendered_frames equals the
\* playhead at rendered_frames + k * length, for every k >= 0.
C4_Periodic ==
    calc_settings.looping = LoopLoop =>
        \A k \in 0..MaxRendered :
            calculate_playhead(calc_rendered_frames + k * CalcLength,
                               calc_composition, calc_settings) = calc_playhead

\* C4 happens: [0,4) with intermission 0 shows frame 2 again at 6 = 2 + 4.
C4_Witness ==
    /\ calc_settings.looping = LoopLoop
    /\ calc_settings.intermission = 0
    /\ calc_settings.direction = Normal
    /\ CalcStart = 0 /\ CalcEnd = 4
    /\ calc_rendered_frames = 6
    /\ calc_playhead = 2

\* C5: with looping None the playhead is non-decreasing (Normal) or
\* non-increasing (Reverse) in rendered_frames, and from rendered_frames =
\* length on it keeps the value it has at length.
C5_MonotoneThenHolds ==
    calc_settings.looping = LoopNone =>
        /\ \A later \in calc_rendered_frames..(MaxRendered + 2) :
            LET p == calculate_playhead(later, calc_composition, calc_settings)
            IN  IF calc_settings.direction = Normal
                THEN p >= calc_playhead
                ELSE p <= calc_playhead
        /\ calc_rendered_frames >= CalcLength =>
            calc_playhead = calculate_playhead(CalcLength, calc_composition, calc_settings)

\* C5 happens: a Reverse pass over [0,4) played past its length holds at 0.
C5_Witness ==
    /\ calc_settings.looping = LoopNone
    /\ calc_settings.direction = Reverse
    /\ calc_settings.intermission = 0
    /\ CalcStart = 0 /\ CalcEnd = 4
    /\ calc_rendered_frames > CalcLength
    /\ calc_playhead = 0

----------------------------------------------------------------------------
(* Claims about the chain of systems, checked under Spec. *)

\* The step is the visit of system `sys` to entity p.
Visits(sys, p) ==
    /\ pc = sys
    /\ ~panicked
    /\ p \in todo
    /\ todo = {p} \/ p \notin todo'
    /\ pc' /= pc \/ todo' /= todo

\* The accumulator of the asset entity p shows, and its composition.
rendered_frames_of(p) == assets[handle[p]].rendered_frames

composition_of(p) == assets[handle[p]].composition

\* Entity p is about to commit a request for a registered state that plays
\* the asset it shows, leaving a state that plays it too, no reset flag set.
CommitsPlain(p) ==
    /\ pc = "set_state"
    /\ ~panicked
    /\ p \in todo
    /\ is_some(player[p].next_state)
    /\ registered(player[p], unwrap(player[p].next_state))
    /\ registered(player[p], player[p].current_state)
    /\ assets[handle[p]].kind = "Lottie"
    /\ LET current == player[p].states[player[p].current_state]
           target  == player[p].states[unwrap(player[p].next_state)]
       IN  /\ ~current.reset_playhead_on_transition
           /\ ~target.reset_playhead_on_start
           /\ current.asset = target.asset
           /\ handle[p] = target.asset

\* C2: a commit from a Normal state to a Reverse state and at once a commit
\* back to a Normal state, no reset flag set and no time in between, shows
\* the playhead that was visible before the first commit.
C2_RoundTrip ==
    \A p \in Players :
        ( /\ CommitsPlain(p)
          /\ rendered_frames_of(p) >= 0
          /\ playback_settings[p].direction = Normal
          /\ target_direction(player[p].states[unwrap(player[p].next_state)]) = Reverse )
        =>
        LET current == player[p].states[player[p].current_state]
            there   == player[p].states[unwrap(player[p].next_state)]
            r0      == rendered_frames_of(p)
            r1      == rendered_after_commit(r0, composition_of(p), playback_settings[p],
                                             current, there)
        IN  \A id \in DOMAIN player[p].states :
                LET back == player[p].states[id]
                    r2   == rendered_after_commit(r1, composition_of(p), settings_of(there),
                                                  there, back)
                IN  ( /\ target_direction(back) = Normal
                      /\ back.asset = there.asset
                      /\ ~there.reset_playhead_on_transition
                      /\ ~back.reset_playhead_on_start )
                    => calculate_playhead(r2, composition_of(p), settings_of(back))
                        = calculate_playhead(r0, composition_of(p), playback_settings[p])

\* C3: a commit from a Normal state to a Reverse state with no reset flag
\* set writes rendered_frames = end - playhead and leaves the visible frame
\* as it was: the playhead under the target's settings after the commit is
\* the playhead under the outgoing settings before it.
C3_ReverseCommitKeepsFrame ==
    [][ \A p \in Players :
            ( /\ CommitsPlain(p)
              /\ Visits("set_state", p)
              /\ rendered_frames_of(p) >= 0
              /\ playback_settings[p].direction = Normal
              /\ playback_settings'[p].direction = Reverse )
            =>
            LET before == calculate_playhead(rendered_frames_of(p), composition_of(p),
                                             playback_settings[p])
                after  == calculate_playhead(assets'[handle'[p]].rendered_frames,
                                             assets'[handle'[p]].composition,
                                             playback_settings'[p])
            IN  /\ assets'[handle'[p]].rendered_frames
                    = composition_of(p).frames.end - before
                /\ after = before
      ]_vars

\* C6: a pending seek applied twice in a row, with no time between the two,
\* leaves the accumulator and the playhead where one application leaves them.
C6_SeekIdempotent ==
    [][ \A p \in Players :
            ( /\ Visits("apply_player_inputs", p)
              /\ assets[handle[p]].kind = "Lottie"
              /\ is_some(player[p].pending_seek_frame)
              /\ rendered_frames_of(p) >= 0 )
            =>
            LET once  == assets'[handle[p]]
                again == apply_player_inputs_of(player'[p], playback_settings'[p], once)
            IN  /\ again.rendered_frames = once.rendered_frames
                /\ calculate_playhead(again.rendered_frames, once.composition,
                                      again.settings)
                    = calculate_playhead(once.rendered_frames, once.composition,
                                         playback_settings'[p])
      ]_vars

\* C6 happens: seek(5) has been applied under the settings of the click state
\* (intermission 1, loops of 4 + 1 frames), which left the accumulator at
\* 5 mod 4 in its first loop.
C6_Witness ==
    /\ pc = "advance_playheads"
    /\ todo = Players
    /\ player["x"].pending_seek_frame = Some(5)
    /\ playback_settings["x"].intermission = 1
    /\ assets[handle["x"]].rendered_frames = 1

\* The rules of the current state of p that the frame's input satisfies.
Matches(p) ==
    LET rules == player[p].states[player[p].current_state].transitions
    IN  {i \in DOMAIN rules : satisfied(rules[i], scan_input(p), hovered)}

LeastOf(S) == CHOOSE i \in S : \A j \in S : i <= j

\* C7: the rules of the current state are taken in declaration order and the
\* first satisfied one sets next_state; with rules [OnMouseEnter -> A,
\* OnMouseClick -> B], the pointer inside and the button just pressed, the
\* state committed in that tick is A.
C7_FirstMatchWins ==
    [][ \A p \in Players :
            LET rules == player[p].states[player[p].current_state].transitions
            IN  /\ ( Visits("run_transitions", p) /\ ~player[p].stopped )
                    => IF Matches(p) = {}
                       THEN player'[p].next_state = player[p].next_state
                       ELSE player'[p].next_state = Some(rules[LeastOf(Matches(p))].state)
                /\ ( /\ Visits("set_state", p)
                     /\ ~player[p].stopped
                     /\ Len(rules) >= 2
                     /\ rules[1].kind = "OnMouseEnter"
                     /\ rules[2].kind = "OnMouseClick"
                     /\ p \in time.inside
                     /\ time.just_pressed )
                    => player'[p].current_state = rules[1].state
      ]_vars

\* C7 happens: pointer inside x and button just pressed while x is idle,
\* whose rules are [OnMouseEnter -> hover, OnMouseClick -> click]; the scan
\* has asked for hover.
C7_Witness ==
    /\ pc = "set_state"
    /\ "x" \in todo
    /\ time.inside = {"x"}
    /\ time.just_pressed
    /\ ~player["x"].stopped
    /\ player["x"].current_state = "idle"
    /\ player["x"].next_state = Some("hover")

\* The step is a visit of run_transitions to p in which an OnMouseLeave rule
\* fires: only that takes `hovered` from true to false.
LeaveFires(p) ==
    /\ Visits("run_transitions", p)
    /\ hovered
    /\ ~hovered'

\* C8: an OnMouseLeave rule fires once per enter/leave cycle of the pointer
\* over its object: only when the pointer has been inside the object since
\* the rule last fired and is outside it now, never in a tick in which the
\* pointer is inside.
C8_LeaveOncePerCycle ==
    [][ \A p \in Players :
            LeaveFires(p) => /\ seen_inside[p]
                             /\ p \notin time.inside
                             /\ ~seen_inside'[p]
      ]_vars

\* C9: while `stopped` is true a tick leaves the player alone: no system
\* moves its accumulator, sets its next_state or commits a pending request.
C9_StoppedFreezes ==
    [][ \A p \in Players :
            ( /\ \E sys \in {"apply_player_inputs", "advance_playheads",
                             "run_transitions", "set_state"} : Visits(sys, p)
              /\ player[p].stopped )
            => /\ player'[p].next_state = player[p].next_state
               /\ player'[p].current_state = player[p].current_state
               /\ assets'[handle[p]] = assets[handle[p]]
      ]_vars

\* Every pending command slot of p is empty.
NothingPending(p) ==
    /\ player[p].pending_seek_frame = None
    /\ player[p].pending_direction = None
    /\ player[p].pending_intermission = None
    /\ player[p].pending_loop_behavior = None
    /\ player[p].pending_play_mode = None
    /\ player[p].pending_speed = None

\* C10: once the apply-commands phase of a tick is over, every pending
\* command slot of every player is empty.
C10_SlotsCleared ==
    pc \in {"advance_playheads", "run_transitions", "set_state"}
        => \A p \in Players : NothingPending(p)

\* The setting a command slot writes, and the slot.
CommandSlots ==
    { <<"direction", "pending_direction">>, <<"intermission", "pending_intermission">>,
      <<"looping", "pending_loop_behavior">>, <<"play_mode", "pending_play_mode">>,
      <<"speed", "pending_speed">> }

RegisteredRules(p) ==
    SelectSeq(player[p].states[player[p].current_state].transitions,
              LAMBDA rule : registered(player[p], rule.state))

\* C12: a rule whose target is not registered is treated as never satisfied:
\* the scan sets next_state as it would without that rule, and the commit
\* phase does not bring the pipeline to a fatal stop.
C12_UnregisteredTargetIgnored ==
    [][ \A p \in Players :
            /\ ( /\ Visits("run_transitions", p)
                 /\ ~player[p].stopped
                 /\ registered(player[p], player[p].current_state) )
                => player'[p].next_state
                    = scan(1, RegisteredRules(p), scan_input(p),
                           [next_state |-> player[p].next_state,
                            hovered |-> hovered]).next_state
            /\ ( /\ Visits("set_state", p)
                 /\ registered(player[p], player[p].current_state) )
                => ~panicked'
      ]_vars

\* C13: with autoplay enabled the advance phase sets playing = true once, in
\* the first tick in which the player is simulated and has not started; in
\* no later tick does autoplay set playing = true again.
C13_AutoplayOnce ==
    [][ \A p \in Players :
            ( /\ Visits("advance_playheads", p)
              /\ ~player[p].stopped
              /\ playback_settings[p].autoplay
              /\ autoplays[p] )
            => player'[p].playing = player[p].playing
      ]_vars

\* Entity p is not stopped and `playing` is false where the advance phase
\* tests it: it is false and autoplay does not set it.
PausedAtAdvance(p) ==
    /\ ~player[p].stopped
    /\ ~player[p].playing
    /\ player[p].started \/ ~playback_settings[p].autoplay

\* C14: while a player is paused and not stopped, the advance phase leaves
\* rendered_frames as it is, the rules of the current state are still
\* evaluated and a queued next_state is still committed in that tick.
C14_PausedStillSwitches ==
    [][ \A p \in Players :
            LET rules == player[p].states[player[p].current_state].transitions
            IN  /\ ( Visits("advance_playheads", p) /\ PausedAtAdvance(p) )
                    => assets' = assets
                /\ ( Visits("run_transitions", p) /\ PausedAtAdvance(p) )
                    => IF Matches(p) = {}
                       THEN player'[p].next_state = player[p].next_state
                       ELSE player'[p].next_state = Some(rules[LeastOf(Matches(p))].state)
                /\ ( /\ Visits("set_state", p)
                     /\ PausedAtAdvance(p)
                     /\ is_some(player[p].next_state)
                     /\ registered(player[p], unwrap(player[p].next_state)) )
                    => player'[p].current_state = unwrap(player[p].next_state)
      ]_vars

\* C14 happens: x was paused by the host after it had started, its
\* accumulator stands at 2, the pointer has come over it and the scan has
\* asked for hover, which the commit phase is about to enter.
C14_Witness ==
    /\ pc = "set_state"
    /\ "x" \in todo
    /\ PausedAtAdvance("x")
    /\ player["x"].started
    /\ time.dt = 1
    /\ time.inside = {"x"}
    /\ player["x"].current_state = "idle"
    /\ player["x"].next_state = Some("hover")
    /\ assets["a1"].rendered_frames = 2

\* C15: a next-state request of the host is the one that is committed: the
\* request that stands in next_state when the tick begins (transition(s), s
\* registered, or reset()) is left in place by the three phases before the
\* commit, also when a rule of the current state is satisfied, and the
\* commit phase makes it current_state.
C15_HostRequestCommitted ==
    [][ \A p \in Players :
            ( /\ ~player[p].stopped
              /\ is_some(player[p].next_state)
              /\ registered(player[p], unwrap(player[p].next_state)) )
            => /\ ( \E sys \in {"apply_player_inputs", "advance_playheads",
                                 "run_transitions"} : Visits(sys, p) )
                    => player'[p].next_state = player[p].next_state
               /\ Visits("set_state", p)
                    => player'[p].current_state = unwrap(player[p].next_state)
      ]_vars

\* C16: no cross-object interaction on the accumulator: the rendered_frames
\* and the first_frame that a player shows are changed only by that
\* player's own phases, also when two players reference the same
\* animation; a visit of a system to another entity leaves them alone.
C16_NoCrossTalk ==
    [][ \A p \in Players : \A q \in Players \ {p} :
            ( /\ \E sys \in {"apply_player_inputs", "advance_playheads",
                               "run_transitions", "set_state"} : Visits(sys, q)
              /\ assets[handle[p]].kind = "Lottie" )
            => /\ assets'[handle[p]].rendered_frames = assets[handle[p]].rendered_frames
               /\ assets'[handle[p]].first_frame = assets[handle[p]].first_frame
      ]_vars

\* C17: an OnComplete rule that the scan reaches is satisfied in a tick
\* exactly when rendered_frames >= usable length + intermission, the usable
\* length being that of the segment range clamped to the composition's
\* frame range, as calculate_playhead takes it.
C17_CompleteAfterOnePass ==
    [][ \A p \in Players :
            ( /\ Visits("run_transitions", p)
              /\ ~player[p].stopped
              /\ registered(player[p], player[p].current_state)
              /\ assets[handle[p]].kind = "Lottie" )
            =>
            LET rules == player[p].states[player[p].current_state].transitions
            IN  \A i \in DOMAIN rules :
                    ( /\ rules[i].kind = "OnComplete"
                      /\ \A j \in 1..(i - 1) : ~satisfied(rules[j], scan_input(p), hovered)
                      /\ player[p].next_state /= Some(rules[i].state) )
                    => ( player'[p].next_state = Some(rules[i].state)
                         <=> rendered_frames_of(p)
                                >= loop_length(composition_of(p), playback_settings[p]) )
      ]_vars

\* C18: in every reachable state of a player, from construction on,
\* current_state is the id of a state registered in its state table.
C18_CurrentStateRegistered ==
    \A p \in Players : registered(player[p], player[p].current_state)

\* C19: applying a pending intermission change from i to i' rescales the
\* accumulated loop time: rendered_frames becomes rendered_frames +
\* loops_played * (i' - i), loops_played = rendered_frames / (frame range
\* length + i); the loops already played are kept and a non-zero
\* accumulator is not thrown away.
C19_IntermissionRescales ==
    [][ \A p \in Players :
            ( /\ Visits("apply_player_inputs", p)
              /\ assets[handle[p]].kind = "Lottie"
              /\ is_some(player[p].pending_intermission)
              /\ player[p].pending_seek_frame = None
              /\ rendered_frames_of(p) >= 0 )
            =>
            LET range  == composition_of(p).frames.end - composition_of(p).frames.start
                old    == playback_settings[p].intermission
                new_   == unwrap(player[p].pending_intermission)
                before == rendered_frames_of(p)
                after  == assets'[handle[p]].rendered_frames
            IN  /\ after = before + MulDiv(before, new_ - old, range + old)
                /\ after \div (range + new_) = before \div (range + old)
                /\ before > 0 => after > 0
      ]_vars

\* C20: applying a pending seek(f), f >= 0, keeps the loop count and writes
\* no settings: with P = frame range length + intermission,
\* floor(rendered_frames / P) is the same before and after, the position in
\* the loop becomes f mod (frame range length), and the active settings and
\* every state's override are unchanged.  No other command is pending.
C20_SeekKeepsLoops ==
    [][ \A p \in Players :
            ( /\ Visits("apply_player_inputs", p)
              /\ assets[handle[p]].kind = "Lottie"
              /\ is_some(player[p].pending_seek_frame)
              /\ player[p].pending_direction = None
              /\ player[p].pending_intermission = None
              /\ player[p].pending_loop_behavior = None
              /\ player[p].pending_play_mode = None
              /\ player[p].pending_speed = None
              /\ rendered_frames_of(p) >= 0 )
            =>
            LET range  == composition_of(p).frames.end - composition_of(p).frames.start
                period == range + playback_settings[p].intermission
                before == rendered_frames_of(p)
                after  == assets'[handle[p]].rendered_frames
            IN  /\ after \div period = before \div period
                /\ after % period = unwrap(player[p].pending_seek_frame) % range
                /\ playback_settings'[p] = playback_settings[p]
                /\ player'[p].states = player[p].states
      ]_vars

\* C20 happens: seek(5) has been applied to x in the second loop over
\* [0,4), intermission 0: the accumulator stands at 4 + 5 mod 4.
C20_Witness ==
    /\ pc = "advance_playheads"
    /\ todo = Players
    /\ player["x"].pending_seek_frame = Some(5)
    /\ playback_settings["x"].intermission = 0
    /\ assets[handle["x"]].rendered_frames = 5

\* Entity p is about to commit a request for a registered state.
Commits(p) ==
    /\ Visits("set_state", p)
    /\ is_some(player[p].next_state)
    /\ registered(player[p], unwrap(player[p].next_state))
    /\ registered(player[p], player[p].current_state)

\* The state p leaves and the state it enters.
Leaving(p) == player[p].states[player[p].current_state]

Entering(p) == player[p].states[unwrap(player[p].next_state)]

\* The remap by the direction pair (outgoing, incoming) of an accumulator
\* that stands for the given playhead.
DirectionalRemap(rendered_frames, playhead, composition, outgoing, incoming) ==
    IF outgoing = Normal /\ incoming = Reverse THEN composition.frames.end - playhead
    ELSE IF outgoing = Reverse /\ incoming = Normal THEN playhead
    ELSE Rem(rendered_frames, composition.frames.end - composition.frames.start)

\* C21: a commit with reset_playhead_on_transition set on the state being
\* left or reset_playhead_on_start set on the target leaves rendered_frames
\* at 0, whatever it was and whatever the two directions are; with neither
\* flag set the directional remap is used (taken here between states of one
\* animation).
C21_HardReset ==
    [][ \A p \in Players :
            ( /\ Commits(p)
              /\ assets[handle[p]].kind = "Lottie"
              /\ assets[Entering(p).asset].kind = "Lottie" )
            =>
            LET before == rendered_frames_of(p)
                after  == assets'[handle'[p]].rendered_frames
            IN  IF \/ Leaving(p).reset_playhead_on_transition
                   \/ Entering(p).reset_playhead_on_start
                THEN after = 0
                ELSE Leaving(p).asset = Entering(p).asset =>
                     after = DirectionalRemap(before,
                                calculate_playhead(before, composition_of(p),
                                                   playback_settings[p]),
                                composition_of(p), playback_settings[p].direction,
                                target_direction(Entering(p)))
      ]_vars

\* C21 happens: x is about to leave alt, a Reverse state with
\* reset_playhead_on_transition, for loop, a Normal state without
\* reset_playhead_on_start, with 3 frames accumulated.
C21_Witness ==
    /\ pc = "set_state"
    /\ "x" \in todo
    /\ ~panicked
    /\ player["x"].current_state = "alt"
    /\ player["x"].next_state = Some("loop")
    /\ Leaving("x").reset_playhead_on_transition
    /\ ~Entering("x").reset_playhead_on_start
    /\ playback_settings["x"].direction = Reverse
    /\ assets[handle["x"]].rendered_frames = 3

\* C22: after the commit of a request for a registered state s,
\* current_state = s, next_state is empty, started and playing are false,
\* and the active settings are s's settings override if it has one and the
\* default settings otherwise: no field of the outgoing settings survives.
C22_CommitPostcondition ==
    [][ \A p \in Players :
            Commits(p) =>
                /\ player'[p].current_state = unwrap(player[p].next_state)
                /\ player'[p].next_state = None
                /\ ~player'[p].started
                /\ ~player'[p].playing
                /\ playback_settings'[p] =
                        IF is_some(Entering(p).playback_settings)
                        THEN unwrap(Entering(p).playback_settings)
                        ELSE DefaultSettings
      ]_vars

\* C22 happens: x is about to leave hover for idle, which has no override,
\* while the active settings are those of hover with the speed 2 the host
\* has set: neither Reverse nor the speed is in the default settings.
C22_Witness ==
    /\ pc = "set_state"
    /\ "x" \in todo
    /\ ~panicked
    /\ player["x"].current_state = "hover"
    /\ player["x"].next_state = Some("idle")
    /\ player["x"].playing
    /\ playback_settings["x"].direction = Reverse
    /\ playback_settings["x"].speed = 2

\* C23: when a commit has no reset flag set, the new accumulator is computed
\* from the position of the animation being left: the input of the remap is
\* the playhead of the accumulator and the settings in effect just before
\* the commit, also when the target state references another animation.
C23_RemapFromOutgoing ==
    [][ \A p \in Players :
            ( /\ Commits(p)
              /\ assets[handle[p]].kind = "Lottie"
              /\ assets[Entering(p).asset].kind = "Lottie"
              /\ ~Leaving(p).reset_playhead_on_transition
              /\ ~Entering(p).reset_playhead_on_start )
            =>
            assets'[handle'[p]].rendered_frames
                = DirectionalRemap(rendered_frames_of(p),
                        calculate_playhead(rendered_frames_of(p), composition_of(p),
                                           playback_settings[p]),
                        composition_of(p), playback_settings[p].direction,
                        target_direction(Entering(p)))
      ]_vars

\* The length of the segment range clamped to the composition's range.
usable_length(composition, settings) ==
    end_frame(composition, settings) - start_frame(composition, settings)

\* C24: a commit between two states of the same direction with no reset
\* flag set re-folds the accumulator without translating it: rendered_frames
\* after the commit is rendered_frames before it mod usable_length, so
\* 0 <= rendered_frames < usable_length afterwards.  Taken between states of
\* one animation whose settings give the same usable length.
C24_SameDirectionRefold ==
    [][ \A p \in Players :
            ( /\ Commits(p)
              /\ assets[handle[p]].kind = "Lottie"
              /\ Leaving(p).asset = Entering(p).asset
              /\ ~Leaving(p).reset_playhead_on_transition
              /\ ~Entering(p).reset_playhead_on_start
              /\ playback_settings[p].direction = target_direction(Entering(p))
              /\ usable_length(composition_of(p), playback_settings[p])
                    = usable_length(composition_of(p), settings_of(Entering(p)))
              /\ rendered_frames_of(p) >= 0 )
            =>
            LET usable == usable_length(composition_of(p), playback_settings[p])
                after  == assets'[handle'[p]].rendered_frames
            IN  /\ after = rendered_frames_of(p) % usable
                /\ 0 <= after /\ after < usable
      ]_vars

\* The current state of p has an OnMouseLeave rule.
HasLeaveRule(p) ==
    /\ registered(player[p], player[p].current_state)
    /\ \E i \in DOMAIN Leaving(p).transitions : Leaving(p).transitions[i].kind = "OnMouseLeave"

\* C25: the hovered latch is per player: the OnMouseLeave rule of an object
\* fires only if the pointer has been inside that object, and the pointer
\* being inside or leaving another object never latches hovered for it: the
\* pass over another entity leaves the latch its rule reads as it was.
C25_LatchPerPlayer ==
    [][ \A p \in Players :
            /\ LeaveFires(p) => seen_inside[p]
            /\ \A q \in Players \ {p} :
                    ( Visits("run_transitions", q) /\ HasLeaveRule(p) )
                    => hovered' = hovered
      ]_vars

\* C26: an OnShow rule fires once per entry of its state: a scan that
\* reaches it does not take it while the entered-at marker of the state's
\* animation is unset and takes it once the marker is set; every commit
\* starts the entry it makes with the marker unset, and the marker is set
\* only by the advance phase of a player that is playing.
C26_ShowOncePerEntry ==
    [][ \A p \in Players :
            /\ ( /\ Visits("run_transitions", p)
                 /\ ~player[p].stopped
                 /\ registered(player[p], player[p].current_state) )
                => \A i \in DOMAIN Leaving(p).transitions :
                    LET rules == Leaving(p).transitions
                    IN  ( /\ rules[i].kind = "OnShow"
                          /\ \A j \in 1..(i - 1) :
                                ~satisfied(rules[j], scan_input(p), hovered)
                          /\ player[p].next_state /= Some(rules[i].state) )
                        => ( player'[p].next_state = Some(rules[i].state)
                             <=> is_some(assets[handle[p]].first_frame) )
            /\ Commits(p) => ~is_some(assets'[handle'[p]].first_frame)
            /\ ( /\ ~is_some(assets[handle[p]].first_frame)
                 /\ is_some(assets'[handle[p]].first_frame) )
                => /\ Visits("advance_playheads", p)
                   /\ player'[p].playing
      ]_vars

\* C26 happens: x has entered intro, whose settings do not autoplay, the
\* host has called play(), the advance phase of this tick has set the marker
\* and the scan has taken OnShow -> loop, which is about to be committed.
C26_Witness ==
    /\ pc = "set_state"
    /\ "x" \in todo
    /\ ~panicked
    /\ player["x"].current_state = "intro"
    /\ player["x"].next_state = Some("loop")
    /\ player["x"].playing
    /\ ~playback_settings["x"].autoplay
    /\ is_some(assets[handle["x"]].first_frame)

\* C27: the accumulator is never negative: from rendered_frames = 0, under
\* ticks, seeks to frames >= 0, intermission changes >= 0, direction changes
\* and commits with or without reset flags, every animation's rendered_frames
\* stays >= 0 in every reachable state.
C27_NeverNegative ==
    \A a \in DOMAIN assets :
        assets[a].kind = "Lottie" => assets[a].rendered_frames >= 0

====
